---- MODULE Spec2Model ----
(***************************************************************************)
(* Model of the fetch-dedupe-persist pipeline of bg-data-scrapers:         *)
(* BaseScraper (scrapers/scrapers/base.py) running against the ScrapedFile *)
(* table (scrapers/models.py), a storage collaborator and a remote host.   *)
(*                                                                         *)
(* A scraper instance is a "run".  Each run owns its stats dictionary; the  *)
(* ScrapedFile table (index) and the storage are shared by the runs.  One  *)
(* action is one step of a method between two points where the method      *)
(* touches the network, the storage or the database.                       *)
(*                                                                         *)
(* Spec drives one run through all of its methods, with every retry        *)
(* setting; SpecConc lets two runs download concurrently.                  *)
(***************************************************************************)
EXTENDS Integers, Sequences, FiniteSets, TLC

\* ---------------------------------------------------------------- bounds
MaxRetriesCfg == 2      \* max_retries is configured in 0..MaxRetriesCfg
MaxBodyLen == 2         \* a response body holds at most this many bytes
MaxClock == 2           \* datetime.now() is read at most this many times
MaxChunks == 3          \* the hashers are fed a body in at most this many chunks

\* ------------------------------------------------------- program constants
request_delay == 1      \* SCRAPER_SETTINGS["REQUEST_DELAY"], in seconds

\* ------------------------------------------------------------- universes
Runs == {"r1", "r2"}
Institutions == {"NSI", "BNB"}
None == <<>>            \* Python's None, for optional tuples and records
Some(x) == <<x>>        \* an optional integer or byte string that is present
Bytes == {0}
Bodies == UNION {[1..n -> Bytes] : n \in 0..MaxBodyLen}

\* A URL is <<directory, basename>>; the basename is <<stem, extension>> and
\* is <<"", "">> for a URL whose path ends in "/".
URLs == {<<"/stat/", <<"a", ".pdf">>>>, <<"/data/", <<"b", ".CSV">>>>}
\* The file_name argument of download_file: None, or a name chosen by the caller.
FileNameArgs == {None, <<"a", ".pdf">>}

\* -------------------------------------------------------------- variables
VARIABLES
    max_retries,   \* self.max_retries, the same settings value for every run
    index,         \* the ScrapedFile table: a sequence of rows, pk = position
    storage,       \* the files on disk, written through the storage
                   \* collaborator: path -> bytes, or None for no file
    now,           \* the clock read by datetime.now()
    inst,          \* inst[r]: self.institution of run r
    stats,         \* stats[r]: self.stats of run r
    pc,            \* pc[r]: where run r is
    loc            \* loc[r]: the locals of the call run r is in (or was last in)

vars == <<max_retries, index, storage, now, inst, stats, pc, loc>>

\* ------------------------------------------------------------ pure helpers
\* os.path.basename(urlparse(url).path)
Basename(url) == url[2]

\* download_file lines 137-141: the file name defaults to the URL's basename,
\* and to file_<time> when the URL has none.
DeriveFileName(url, file_name, t) ==
    IF file_name # None THEN file_name
    ELSE IF Basename(url) # <<"", "">> THEN Basename(url)
    ELSE <<"file_" \o ToString(t), "">>

\* str.lower() on the extensions the model uses
Lower(ext) ==
    CASE ext = ".CSV" -> ".csv"
      [] ext = ".PDF" -> ".pdf"
      [] OTHER -> ext

\* _get_mime_type: os.path.splitext(file_name)[1].lower() looked up in the table
GetMimeType(file_name) ==
    LET ext == Lower(file_name[2]) IN
    CASE ext = ".pdf" -> "application/pdf"
      [] ext = ".xls" -> "application/vnd.ms-excel"
      [] ext = ".csv" -> "text/csv"
      [] ext = ".txt" -> "text/plain"
      [] ext = ".html" -> "text/html"
      [] ext = ".xml" -> "application/xml"
      [] ext = ".json" -> "application/json"
      [] ext = ".zip" -> "application/zip"
      [] OTHER -> "application/octet-stream"

\* os.path.join(settings.SCRAPED_FILES_DIR, self.institution, file_name)
StoragePath(institution, file_name) == <<"scraped_files", institution, file_name>>

StoragePaths ==
    {StoragePath(i, f) : i \in Institutions,
                         f \in (FileNameArgs \ {None}) \cup {Basename(u) : u \in URLs}}

\* The stats documents of an institution's runs that the monitor's scan looks
\* for (monitor.py lines 55-57: files named stats_*.json under the
\* institution's directory), and the "latest" pointer document.
StatsDocuments(institution) == {<<"storage_dir", institution, <<"stats_", ".json">>>>}
LatestDocument(institution) == <<"storage_dir", institution, <<"latest", ".json">>>>

\* Every path of the disk
DiskPaths ==
    StoragePaths \cup UNION {StatsDocuments(i) \cup {LatestDocument(i)} : i \in Institutions}

\* hashlib.sha256(): the hash object absorbs bytes one by one; its state is the
\* number of bytes absorbed and an accumulator that is injective on the byte
\* strings of the model (SHA-256 taken as collision free).
Sha256New == [len |-> 0, acc |-> 0]

\* A hash object that keeps only the chunk it was fed last
Sha256UpdateLastChunk(h, chunk) ==
    IF chunk = <<>> THEN h
    ELSE [len |-> Len(chunk), acc |-> chunk[Len(chunk)] + 1]

RECURSIVE Sha256Update(_, _)
Sha256Update(h, chunk) ==
    IF chunk = <<>> THEN h
    ELSE Sha256Update([len |-> h.len + 1,
                       acc |-> h.acc * (Cardinality(Bytes) + 1) + chunk[1] + 1],
                      Tail(chunk))

\* hash_obj.hexdigest()
HexDigest(h) == <<"sha256", h.len, h.acc>>

\* _calculate_hash(content): the one-shot digest
CalculateHash(content) == HexDigest(Sha256Update(Sha256New, content))

\* The ways the remote delivers a body as chunks: one chunk, or any split in
\* two with an empty chunk in between.
Chunkings(body) ==
    {<<body>>} \cup
    {<<SubSeq(body, 1, i), <<>>, SubSeq(body, i + 1, Len(body))>> : i \in 0..Len(body)}

\* A streaming loop that adds one to total_size for every chunk
RECURSIVE StreamChunksCountingChunks(_, _)
StreamChunksCountingChunks(acc, chunks) ==
    IF chunks = <<>> THEN acc
    ELSE LET chunk == Head(chunks) IN
         StreamChunksCountingChunks(
             IF chunk # <<>>
             THEN [content |-> acc.content \o chunk,
                   hash_obj |-> Sha256Update(acc.hash_obj, chunk),
                   total_size |-> acc.total_size + 1]
             ELSE acc,
             Tail(chunks))

\* The streaming loop of download_file, lines 176-187: empty chunks are
\* skipped, the others extend content, feed the hash and add to total_size.
RECURSIVE StreamChunks(_, _)
StreamChunks(acc, chunks) ==
    IF chunks = <<>> THEN acc
    ELSE LET chunk == Head(chunks) IN
         StreamChunks(
             IF chunk # <<>>
             THEN [content |-> acc.content \o chunk,
                   hash_obj |-> Sha256Update(acc.hash_obj, chunk),
                   total_size |-> acc.total_size + Len(chunk)]
             ELSE acc,
             Tail(chunks))

StreamStart == [content |-> <<>>, hash_obj |-> Sha256New, total_size |-> 0]

\* The ETag values a remote may report: any digest, or a token that is none.
ETags == {CalculateHash(b) : b \in Bodies} \cup {<<"opaque", 0, 0>>}

\* ------------------------------------------------------------------ state
\* The locals of a call, and what an observer of the call records: the number
\* of HEAD requests (heads), of GET attempts (gets), of _make_request calls
\* (fetches), of responses received (ok_requests), the time.sleep calls in
\* order (sleeps), the storage writes (saves) and table writes (writes), the
\* probe's answer (probe: "", or "failed", or what ETag it carried: "absent",
\* "equal" to the recorded hash, or "differs"), the body the remote sent
\* (body), the stats as they were when the call began (entry_stats), and how
\* it ended.
NewCall(r, op, url, file_name, overwrite, existing) ==
    [op |-> op, url |-> url, file_name |-> file_name, overwrite |-> overwrite,
     existing |-> existing, attempt |-> 0,
     content |-> <<>>, hash_value |-> None, total_size |-> 0, file_path |-> None,
     probe |-> "", heads |-> 0, gets |-> 0, fetches |-> 0, ok_requests |-> 0, sleeps |-> <<>>,
     saw404 |-> FALSE, saves |-> 0, writes |-> 0, body |-> <<>>,
     entry_stats |-> stats[r], outcome |-> "running", ret |-> None, error |-> ""]

\* BaseScraper.__init__, lines 40-48
NewStats(t) ==
    [start_time |-> t, end_time |-> None, files_scraped |-> 0, files_failed |-> 0,
     total_size |-> 0, errors |-> <<>>, duration |-> None]

\* The state after the scrapers are constructed: an empty table, an empty
\* storage, fresh stats.
Constructed ==
    /\ index = <<>>
    /\ storage = [p \in DiskPaths |-> None]
    /\ now = 1
    /\ stats = [r \in Runs |-> NewStats(0)]
    /\ pc = [r \in Runs |-> "idle"]
    /\ loc = [r \in Runs |-> NewCall(r, "none", None, None, FALSE, None)]

Init ==
    /\ max_retries \in 0..MaxRetriesCfg
    /\ inst = [r \in Runs |-> "NSI"]
    /\ Constructed

\* Two runs at once, of the same institution or of two, with a retry setting
\* of one attempt.
InitConc ==
    /\ max_retries = 1
    /\ inst \in {f \in [Runs -> Institutions] : f["r1"] = "NSI"}
    /\ Constructed

\* Every call reads the clock at most once more; a call starts only while
\* the clock can still serve every call in flight.
InFlight == {r \in Runs : pc[r] \notin {"idle", "aborted"}}
ClockLeft == now + Cardinality(InFlight) <= MaxClock

\* ------------------------------------------------------------ the table
\* unique_together = ('institution', 'original_url'): the rows holding a key
RowsWithKey(idx, institution, url) ==
    {i \in 1..Len(idx) : idx[i].institution = institution /\ idx[i].original_url = url}

\* A lookup that filters on the URL alone
LookupByUrlOnly(idx, institution, url) ==
    LET hits == {i \in 1..Len(idx) : idx[i].original_url = url} IN
    IF hits = {} THEN None
    ELSE LET i == CHOOSE j \in hits : \A k \in hits : j <= k IN
         [pk |-> i, row |-> idx[i]]

\* ScrapedFile.objects.filter(institution=..., original_url=...).first():
\* the first matching row as a model instance (its fields and its pk), or None
Lookup(idx, institution, url) ==
    LET hits == RowsWithKey(idx, institution, url) IN
    IF hits = {} THEN None
    ELSE LET i == CHOOSE j \in hits : \A k \in hits : j <= k IN
         [pk |-> i, row |-> idx[i]]

\* A table without the unique constraint: no INSERT is refused.
NoUniqueConstraint(idx, institution, url) == FALSE

\* The database's unique constraint: an INSERT of a key that is present fails.
UniqueViolation(idx, institution, url) ==
    RowsWithKey(idx, institution, url) # {}

\* ---------------------------------------------------- how a call can end
\* The entry appended to stats['errors'], lines 76-80 and 229-233.  The text
\* of str(e) is not modelled: an entry says which URL failed and when.
ErrorEntry(url, err, t) == [url |-> url, error |-> "str(e)", time |-> t]

\* return <value> from download_file or fetch_page
Return(r, value, l) ==
    /\ pc' = [pc EXCEPT ![r] = "idle"]
    /\ loc' = [loc EXCEPT ![r] = [l EXCEPT !.outcome = "returned", !.ret = value]]

\* A handler that logs the failure and does not count it
DownloadFailedUncounted(r, err, l) ==
    /\ stats' = [stats EXCEPT ![r] =
                   [@ EXCEPT !.errors = Append(@, ErrorEntry(l.url, err, now))]]
    /\ now' = now + 1
    /\ Return(r, None, [l EXCEPT !.error = err])

\* download_file's handler, lines 226-234: count the failure, log it, return None
DownloadFailed(r, err, l) ==
    /\ stats' = [stats EXCEPT ![r] =
                   [@ EXCEPT !.files_failed = @ + 1,
                             !.errors = Append(@, ErrorEntry(l.url, err, now))]]
    /\ now' = now + 1
    /\ Return(r, None, [l EXCEPT !.error = err])

\* fetch_page's handler, lines 74-81: log the failure, return None
FetchPageFailed(r, err, l) ==
    /\ stats' = [stats EXCEPT ![r] =
                   [@ EXCEPT !.errors = Append(@, ErrorEntry(l.url, err, now))]]
    /\ now' = now + 1
    /\ Return(r, None, [l EXCEPT !.error = err])

\* An exception no handler of the method catches leaves the method; the run
\* loops of the scrapers (nsi_scraper.py run, process_category) catch nothing,
\* so the run ends there.
Raised(r, err, l) ==
    /\ pc' = [pc EXCEPT ![r] = "aborted"]
    /\ loc' = [loc EXCEPT ![r] = [l EXCEPT !.outcome = "raised", !.error = err]]

\* self._make_request(url, ...) is called: line 70 and line 166
CallMakeRequest(r, l) ==
    /\ pc' = [pc EXCEPT ![r] = "get"]
    /\ loc' = [loc EXCEPT ![r] = [l EXCEPT !.fetches = @ + 1, !.attempt = 0]]

\* ------------------------------------------------------------ download_file
\* A probe that is made for every recorded URL, overwrite or not
ProbeAlways(existing_file, overwrite) == existing_file # None

\* Line 149: the probe is made for a recorded URL unless overwrite is on
ShouldProbe(existing_file, overwrite) == existing_file # None /\ ~overwrite

\* An ETag comparison that never matches
ETagNeverMatches(etag, existing_file) == FALSE

\* Lines 153-155: the response carries an ETag and it is the recorded hash
ETagMatches(etag, existing_file) ==
    etag # None /\ etag = Some(existing_file.row.hash_value)

\* Lines 135-147: the file name is settled and the table is asked for the
\* record of (institution, url); the call goes on to the HEAD probe when a
\* record exists and overwrite is off (line 149), else to the download.
DownloadFile(r, url, file_name, overwrite) ==
    /\ pc[r] = "idle"
    /\ ClockLeft
    /\ LET existing_file == Lookup(index, inst[r], url)
           name == DeriveFileName(url, file_name, now) IN
       IF ShouldProbe(existing_file, overwrite)
       THEN /\ pc' = [pc EXCEPT ![r] = "head"]
            /\ loc' = [loc EXCEPT ![r] =
                  NewCall(r, "download_file", url, name, overwrite, existing_file)]
       ELSE CallMakeRequest(r,
                  NewCall(r, "download_file", url, name, overwrite, existing_file))
    /\ UNCHANGED <<max_retries, index, storage, now, inst, stats>>

\* Lines 144-147 stand outside every try block: a database error of the
\* lookup leaves download_file as an exception.
DownloadFileLookupError(r, url, file_name, overwrite) ==
    /\ pc[r] = "idle"
    /\ ClockLeft
    /\ Raised(r, "DatabaseError",
              NewCall(r, "download_file", url,
                      DeriveFileName(url, file_name, now), overwrite, None))
    /\ UNCHANGED <<max_retries, index, storage, now, inst, stats>>

\* What the observer notes of the probe's response
ProbeAnswer(etag, existing_file) ==
    IF etag = None THEN "absent"
    ELSE IF etag[1] = existing_file.row.hash_value THEN "equal" ELSE "differs"

\* Lines 151-157: session.head answers; an ETag equal to the stored hash ends
\* the call with the stored path, anything else goes on to the download.
\* etag is None when the response carries no ETag header.
HeadReplies(r, etag) ==
    /\ pc[r] = "head"
    /\ LET l == [loc[r] EXCEPT !.heads = @ + 1, !.ok_requests = @ + 1,
                               !.probe = ProbeAnswer(etag, loc[r].existing)] IN
       IF ETagMatches(etag, l.existing)
       THEN Return(r, l.existing.row.file_path, l)
       ELSE CallMakeRequest(r, l)
    /\ UNCHANGED <<max_retries, index, storage, now, inst, stats>>

\* A failed probe that is handled as a failed download
HeadFailsCounted(r) ==
    /\ pc[r] = "head"
    /\ DownloadFailed(r, "ConnectionError", [loc[r] EXCEPT !.heads = @ + 1, !.probe = "failed"])
    /\ UNCHANGED <<max_retries, index, storage, inst>>

\* Lines 158-160: the HEAD request raises a RequestException, which is passed
\* over; the call goes on to the download.
HeadFails(r) ==
    /\ pc[r] = "head"
    /\ CallMakeRequest(r, [loc[r] EXCEPT !.heads = @ + 1, !.probe = "failed"])
    /\ UNCHANGED <<max_retries, index, storage, now, inst, stats>>

\* ------------------------------------------------------------ _make_request
\* 2 ** attempt
RECURSIVE Pow2(_)
Pow2(n) == IF n = 0 THEN 1 ELSE 2 * Pow2(n - 1)

\* A backoff that grows by 2 * attempt instead of 2 ** attempt
BackoffLinear(attempt) == request_delay * 2 * attempt

\* time.sleep(self.request_delay * (2 ** attempt)), line 102
Backoff(attempt) == request_delay * Pow2(attempt)

\* time.sleep(self.request_delay), line 95
PolitenessDelay == request_delay

\* line 100: the attempt after which the error is raised instead of retried
LastAttempt(attempt) == attempt = max_retries - 1

\* The kinds of requests.exceptions.RequestException a GET attempt can end in:
\* a network error, or a 404 turned into HTTPError by raise_for_status.
RequestErrors == {"ConnectionError", "HTTPError 404"}

\* Lines 85-97: an attempt gets a 2xx response; the politeness delay is slept
\* and the response returned: download_file goes on to stream it, fetch_page
\* parses it and returns the soup (line 73).
RequestSucceeds(r) ==
    /\ pc[r] = "get"
    /\ loc[r].attempt < max_retries
    /\ LET l == [loc[r] EXCEPT !.gets = @ + 1, !.ok_requests = @ + 1,
                               !.sleeps = Append(@, <<"polite", PolitenessDelay>>)] IN
       IF l.op = "download_file"
       THEN /\ pc' = [pc EXCEPT ![r] = "stream"]
            /\ loc' = [loc EXCEPT ![r] = l]
       ELSE Return(r, <<"soup", l.url>>, l)
    /\ UNCHANGED <<max_retries, index, storage, now, inst, stats>>

\* A retry loop without a bound: every failed attempt is retried
RequestFailsRetryUnbounded(r, err) ==
    /\ pc[r] = "get"
    /\ max_retries > 0
    /\ loc' = [loc EXCEPT ![r] =
                 [@ EXCEPT !.gets = @ + 1,
                           !.saw404 = @ \/ err = "HTTPError 404",
                           !.attempt = @ + 1]]
    /\ UNCHANGED <<max_retries, index, storage, now, inst, stats, pc>>

\* A retry loop that logs every failed attempt in the stats
RequestFailsRetryLogged(r, err) ==
    /\ pc[r] = "get"
    /\ loc[r].attempt < max_retries
    /\ ~(loc[r].attempt = max_retries - 1)
    /\ loc' = [loc EXCEPT ![r] =
                 [@ EXCEPT !.gets = @ + 1,
                           !.saw404 = @ \/ err = "HTTPError 404",
                           !.sleeps = Append(@, <<"backoff", request_delay * (2 ^ loc[r].attempt)>>),
                           !.attempt = @ + 1]]
    /\ stats' = [stats EXCEPT ![r] =
                   [@ EXCEPT !.errors = Append(@, [url |-> loc[r].url, error |-> "str(e)", time |-> now])]]
    /\ UNCHANGED <<max_retries, index, storage, now, inst, pc>>

\* Lines 98-102: an attempt raises a RequestException and it is not the last
\* one: the backoff is slept and the loop goes on.
RequestFailsRetry(r, err) ==
    /\ pc[r] = "get"
    /\ loc[r].attempt < max_retries
    /\ ~LastAttempt(loc[r].attempt)
    /\ loc' = [loc EXCEPT ![r] =
                 [@ EXCEPT !.gets = @ + 1,
                           !.saw404 = @ \/ err = "HTTPError 404",
                           !.sleeps = Append(@, <<"backoff", Backoff(loc[r].attempt)>>),
                           !.attempt = @ + 1]]
    /\ UNCHANGED <<max_retries, index, storage, now, inst, stats, pc>>

\* Lines 98-101: the last attempt raises a RequestException, which leaves
\* _make_request and reaches the caller's handler.
RequestFailsLast(r, err) ==
    /\ pc[r] = "get"
    /\ loc[r].attempt < max_retries
    /\ LastAttempt(loc[r].attempt)
    /\ LET l == [loc[r] EXCEPT !.gets = @ + 1,
                               !.saw404 = @ \/ err = "HTTPError 404"] IN
       IF l.op = "download_file"
       THEN DownloadFailed(r, err, l)
       ELSE FetchPageFailed(r, err, l)
    /\ UNCHANGED <<max_retries, index, storage, inst>>

\* Line 85 with max_retries = 0: the loop body never runs and _make_request
\* returns None.  download_file fails on response.iter_content (line 180)
\* inside its try block; fetch_page fails on response.text (line 73) with an
\* AttributeError its handler does not catch.
RequestLoopEmpty(r) ==
    /\ pc[r] = "get"
    /\ max_retries = 0
    /\ IF loc[r].op = "download_file"
       THEN DownloadFailed(r, "AttributeError", loc[r])
       ELSE /\ Raised(r, "AttributeError", loc[r])
            /\ UNCHANGED <<stats, now>>
    /\ UNCHANGED <<max_retries, index, storage, inst>>

\* ------------------------------------------------- download_file, continued
\* A content check that never finds the content unchanged
ContentAlwaysChanged(existing_file, hash_value, overwrite) == FALSE

\* A content check with the overwrite flag the wrong way round
UnchangedContentFlagInverted(existing_file, hash_value, overwrite) ==
    existing_file # None /\ existing_file.row.hash_value = hash_value /\ overwrite

\* Line 190: the downloaded content is the content already recorded
UnchangedContent(existing_file, hash_value, overwrite) ==
    existing_file # None /\ existing_file.row.hash_value = hash_value /\ ~overwrite

\* Lines 175-192: the body arrives as chunks and is hashed as it arrives; when
\* the hash is the recorded one and overwrite is off the call ends with the
\* stored path, else it goes on to save the bytes.
StreamBody(r, body, chunks) ==
    /\ pc[r] = "stream"
    /\ chunks \in Chunkings(body)
    /\ LET got == StreamChunks(StreamStart, chunks)
           l == [loc[r] EXCEPT !.body = body,
                               !.content = got.content,
                               !.hash_value = HexDigest(got.hash_obj),
                               !.total_size = got.total_size] IN
       IF UnchangedContent(l.existing, l.hash_value, l.overwrite)
       THEN Return(r, l.existing.row.file_path, l)
       ELSE /\ pc' = [pc EXCEPT ![r] = "save"]
            /\ loc' = [loc EXCEPT ![r] = l]
    /\ UNCHANGED <<max_retries, index, storage, now, inst, stats>>

\* Line 180: iter_content raises in mid-stream; the handler of line 226 runs.
StreamFails(r) ==
    /\ pc[r] = "stream"
    /\ DownloadFailed(r, "ChunkedEncodingError", loc[r])
    /\ UNCHANGED <<max_retries, index, storage, inst>>

\* The storage collaborator's save(logical_path, bytes) -> storage_path:
\* the bytes replace whatever the path held, and the path is returned.
StorageSave(store, path, content) ==
    [store EXCEPT ![path] = Some(content)]

\* Lines 168-173 and 195: the bytes are saved under the storage path.
SaveFile(r) ==
    /\ pc[r] = "save"
    /\ LET storage_path == StoragePath(inst[r], loc[r].file_name) IN
       /\ storage' = StorageSave(storage, storage_path, loc[r].content)
       /\ loc' = [loc EXCEPT ![r] =
                    [@ EXCEPT !.file_path = storage_path, !.saves = @ + 1]]
    /\ pc' = [pc EXCEPT ![r] = "commit"]
    /\ UNCHANGED <<max_retries, index, now, inst, stats>>

\* A failed save that is passed over: the call goes on to the commit with
\* the path it meant to write
SaveFileFailsIgnored(r) ==
    /\ pc[r] = "save"
    /\ loc' = [loc EXCEPT ![r] =
                 [@ EXCEPT !.file_path = StoragePath(inst[r], loc[r].file_name)]]
    /\ pc' = [pc EXCEPT ![r] = "commit"]
    /\ UNCHANGED <<max_retries, index, storage, now, inst, stats>>

\* Line 195: storage.save raises and has written nothing.
SaveFileFails(r) ==
    /\ pc[r] = "save"
    /\ DownloadFailed(r, "StorageWriteError", loc[r])
    /\ UNCHANGED <<max_retries, index, storage, inst>>

\* An update that leaves the recorded size as it was
UpdatedRowStaleSize(row, file_path, total_size, mime_type, hash_value, t) ==
    [row EXCEPT !.file_path = file_path,
                !.mime_type = mime_type, !.hash_value = hash_value,
                !.last_updated = t]

\* Lines 202-207: the fields existing_file.save() writes back to its row
UpdatedRow(row, file_path, total_size, mime_type, hash_value, t) ==
    [row EXCEPT !.file_path = file_path, !.file_size = total_size,
                !.mime_type = mime_type, !.hash_value = hash_value,
                !.last_updated = t]

\* Lines 210-218: the row ScrapedFile.objects.create(...) inserts;
\* date_created is auto_now_add and last_updated auto_now (models.py 12-13)
CreatedRow(institution, url, file_path, file_name, total_size, mime_type, hash_value, t) ==
    [institution |-> institution, original_url |-> url, file_path |-> file_path,
     file_name |-> file_name, file_size |-> total_size, mime_type |-> mime_type,
     hash_value |-> hash_value, date_created |-> t, last_updated |-> t]

\* A success that adds the bytes and forgets to count the file
RecordSuccessBytesOnly(st, total_size) ==
    [st EXCEPT !.total_size = @ + total_size]

\* Lines 221-222
RecordSuccess(st, total_size) ==
    [st EXCEPT !.files_scraped = @ + 1, !.total_size = @ + total_size]

\* Lines 197-224: the record of the call's key is updated when the lookup had
\* found one, else created; then the stats count the file and the path is
\* returned.  The insert of a key some row holds by now is refused by the
\* unique constraint and the handler of line 226 runs.
CommitRecord(r) ==
    /\ pc[r] = "commit"
    /\ LET l == loc[r]
           mime_type == GetMimeType(l.file_name) IN
       IF l.existing # None /\ (l.overwrite \/ l.existing.row.hash_value # l.hash_value)
       THEN /\ index' = [index EXCEPT ![l.existing.pk] =
                           UpdatedRow(l.existing.row, l.file_path, l.total_size,
                                      mime_type, l.hash_value, now)]
            /\ stats' = [stats EXCEPT ![r] = RecordSuccess(@, l.total_size)]
            /\ now' = now + 1
            /\ Return(r, l.file_path, [l EXCEPT !.writes = @ + 1])
       ELSE IF l.existing = None
       THEN IF UniqueViolation(index, inst[r], l.url)
            THEN /\ DownloadFailed(r, "IntegrityError", l)
                 /\ UNCHANGED index
            ELSE /\ index' = Append(index,
                           CreatedRow(inst[r], l.url, l.file_path, l.file_name,
                                      l.total_size, mime_type, l.hash_value, now))
                 /\ stats' = [stats EXCEPT ![r] = RecordSuccess(@, l.total_size)]
                 /\ now' = now + 1
                 /\ Return(r, l.file_path, [l EXCEPT !.writes = @ + 1])
       ELSE /\ stats' = [stats EXCEPT ![r] = RecordSuccess(@, l.total_size)]
            /\ Return(r, l.file_path, l)
            /\ UNCHANGED <<index, now>>
    /\ UNCHANGED <<max_retries, storage, inst>>

\* Lines 207 and 210: the database refuses the write (backend unavailable).
CommitRecordFails(r) ==
    /\ pc[r] = "commit"
    /\ DownloadFailed(r, "DatabaseError", loc[r])
    /\ UNCHANGED <<max_retries, index, storage, inst>>

\* --------------------------------------------------------------- fetch_page
\* Lines 66-70
FetchPage(r, url) ==
    /\ pc[r] = "idle"
    /\ ClockLeft
    /\ CallMakeRequest(r, NewCall(r, "fetch_page", url, None, FALSE, None))
    /\ UNCHANGED <<max_retries, index, storage, now, inst, stats>>

\* ----------------------------------------------------------------- finalize
\* Lines 240-248
Finalize(r) ==
    /\ pc[r] = "idle"
    /\ ClockLeft
    /\ stats' = [stats EXCEPT ![r] =
                   [@ EXCEPT !.end_time = Some(now),
                             !.duration = Some(now - stats[r].start_time)]]
    /\ now' = now + 1
    /\ Return(r, <<"self.stats">>, NewCall(r, "finalize", None, None, FALSE, None))
    /\ UNCHANGED <<max_retries, index, storage, inst>>

\* Line 248: finalize returns self.stats, the dictionary itself and no copy:
\* the record its caller holds is the run's stats, whatever they become.
FinalizedRecord(r) == stats[r]

\* ------------------------------------------------------------ specification
\* The steps of download_file for run r, its URL drawn from urls and its
\* file_name argument from names, but for the steps only a retry setting
\* other than 1 allows
DownloadStep(r, urls, names) ==
    \/ \E url \in urls, file_name \in names, overwrite \in BOOLEAN :
           \/ DownloadFile(r, url, file_name, overwrite)
           \/ DownloadFileLookupError(r, url, file_name, overwrite)
    \/ \E etag \in {None} \cup {Some(e) : e \in ETags} : HeadReplies(r, etag)
    \/ HeadFails(r)
    \/ RequestSucceeds(r)
    \/ \E err \in RequestErrors : RequestFailsLast(r, err)
    \/ \E body \in Bodies : \E chunks \in Chunkings(body) : StreamBody(r, body, chunks)
    \/ StreamFails(r)
    \/ SaveFile(r)
    \/ SaveFileFails(r)
    \/ CommitRecord(r)
    \/ CommitRecordFails(r)

\* The steps of _make_request that need max_retries > 1 or max_retries = 0
RetryStep(r) ==
    \/ \E err \in RequestErrors : RequestFailsRetry(r, err)
    \/ RequestLoopEmpty(r)

\* One scraper instance, used through all of its methods.
Next ==
    \/ DownloadStep("r1", URLs, FileNameArgs)
    \/ RetryStep("r1")
    \/ \E url \in URLs : FetchPage("r1", url)
    \/ Finalize("r1")

Spec == Init /\ [][Next]_vars

\* Two scraper instances downloading concurrently: the same URL, which is
\* the same key when the two are of one institution and two keys otherwise.
\* With max_retries = 1 no step of RetryStep is possible.
ConcURLs == {<<"/stat/", <<"a", ".pdf">>>>}

NextConc == \E r \in Runs : DownloadStep(r, ConcURLs, {None})

SpecConc == InitConc /\ [][NextConc]_vars

\* One scraper that keeps downloading one URL.  The worker is sequential and
\* every request, storage and database operation returns or fails within its
\* timeout (request_timeout, download_timeout): a step that is possible is
\* taken in the end.
NextLive == DownloadStep("r1", ConcURLs, {None}) \/ RetryStep("r1")

SpecLive == Init /\ [][NextLive]_vars /\ WF_vars(NextLive)

\* ------------------------------------------------------- the hashers alone
\* The byte strings hashed: two byte values, so that order and content count
HashBytes == {0, 1}
HashBodies == UNION {[1..n -> HashBytes] : n \in 0..MaxBodyLen}

\* The ways of cutting a byte string into exactly n chunks, empty ones included
RECURSIVE Splits(_, _)
Splits(body, n) ==
    IF n = 1 THEN {<<body>>}
    ELSE UNION {{<<SubSeq(body, 1, i)>> \o rest :
                    rest \in Splits(SubSeq(body, i + 1, Len(body)), n - 1)} :
                i \in 0..Len(body)}

\* response.iter_content: a body arrives in any number of chunks
AllSplits(body) == UNION {Splits(body, n) : n \in 1..MaxChunks}

\* calculate_file_hash, line 131: iter(lambda: f.read(n), b"") yields the
\* file's bytes in blocks of n, the last one shorter, and stops at b""
RECURSIVE FileBlocks(_, _)
FileBlocks(content, n) ==
    IF content = <<>> THEN <<>>
    ELSE IF Len(content) <= n THEN <<content>>
    ELSE <<SubSeq(content, 1, n)>> \o FileBlocks(SubSeq(content, n + 1, Len(content)), n)

\* calculate_file_hash, lines 129-133: every block read is fed to the hash
RECURSIVE UpdateAll(_, _)
UpdateAll(h, blocks) ==
    IF blocks = <<>> THEN h
    ELSE UpdateAll(Sha256Update(h, Head(blocks)), Tail(blocks))

CalculateFileHash(content, n) ==
    HexDigest(UpdateAll(Sha256New, FileBlocks(content, n)))

\* The block sizes of f.read: 4096 in the code, here the sizes that cut the
\* model's short files into one block or several
ReadSizes == 1..MaxBodyLen

\* A hashing job: a byte string, the chunks it arrives in over the network,
\* the block size it is read with from disk, and the three digests, None
\* until computed
NewHashing(body, chunks, n) ==
    [op |-> "hash", body |-> body, chunks |-> chunks, read_size |-> n,
     one_shot |-> None, streamed |-> None, file_hash |-> None]

HashInputs ==
    {NewHashing(body, chunks, n) :
        <<body, chunks>> \in UNION {{<<b, c>> : c \in AllSplits(b)} : b \in HashBodies},
        n \in ReadSizes}

\* A scraper with a byte string to hash and nothing else going on
InitHash ==
    /\ max_retries = 1
    /\ inst = [r \in Runs |-> "NSI"]
    /\ index = <<>>
    /\ storage = [p \in DiskPaths |-> None]
    /\ now = 1
    /\ stats = [r \in Runs |-> NewStats(0)]
    /\ pc = [r \in Runs |-> "hashing"]
    /\ loc \in {[r \in Runs |-> h] : h \in HashInputs}

\* _calculate_hash(content), line 125
HashOneShot(r) ==
    /\ pc[r] = "hashing" /\ loc[r].one_shot = None
    /\ loc' = [loc EXCEPT ![r].one_shot = CalculateHash(loc[r].body)]
    /\ UNCHANGED <<max_retries, index, storage, now, inst, stats, pc>>

\* The streaming loop of download_file, lines 176-187, over the chunks
HashStreamed(r) ==
    /\ pc[r] = "hashing" /\ loc[r].streamed = None
    /\ loc' = [loc EXCEPT ![r].streamed =
                 HexDigest(StreamChunks(StreamStart, loc[r].chunks).hash_obj)]
    /\ UNCHANGED <<max_retries, index, storage, now, inst, stats, pc>>

\* calculate_file_hash(file_path) of a file that holds the byte string
HashFile(r) ==
    /\ pc[r] = "hashing" /\ loc[r].file_hash = None
    /\ loc' = [loc EXCEPT ![r].file_hash =
                 CalculateFileHash(loc[r].body, loc[r].read_size)]
    /\ UNCHANGED <<max_retries, index, storage, now, inst, stats, pc>>

NextHash == HashOneShot("r1") \/ HashStreamed("r1") \/ HashFile("r1")

SpecHash == InitHash /\ [][NextHash]_vars

\* ================================================================== claims
\* The record of the key of run r's call, as the table holds it now
CurrentRecord(r) == Lookup(index, inst[r], loc[r].url)

\* The digest recorded for the key when run r's call looked it up
RecordedDigest(r) == loc[r].existing.row.hash_value

\* The sleeps of a call that were made for the given reason
SleepsFor(l, why) == {i \in DOMAIN l.sleeps : l.sleeps[i][1] = why}

\* C1: in every reachable state of the table no two rows hold the same
\* (institution, original_url) pair, whatever the runs do and however their
\* steps interleave.
C1_Uniqueness ==
    \A i, j \in 1..Len(index) :
        (index[i].institution = index[j].institution
         /\ index[i].original_url = index[j].original_url) => i = j

\* Two runs of one institution both found no record of the key, one has
\* created it and the other's insert was refused.
C1_Witness ==
    \E r \in Runs :
        /\ loc[r].error = "IntegrityError"
        /\ Cardinality(RowsWithKey(index, inst[r], loc[r].url)) = 1

\* C2: a run that reaches its commit after another run committed the same key
\* (its own lookup having found no record) ends its download as a success,
\* with its result in the single record of the key, unless the database is
\* unavailable.
C2_SecondCommitterSucceeds ==
    [][\A r \in Runs :
          (/\ pc[r] = "commit" /\ pc'[r] = "idle"
           /\ loc[r].existing = None
           /\ RowsWithKey(index, inst[r], loc[r].url) # {}
           /\ loc'[r].error # "DatabaseError")
          => (/\ loc'[r].ret = loc[r].file_path
              /\ \E i \in RowsWithKey(index', inst[r], loc[r].url) :
                     index'[i].hash_value = loc[r].hash_value
              /\ Cardinality(RowsWithKey(index', inst[r], loc[r].url)) = 1)]_vars

\* C3: when a record with digest D exists, overwrite is off and the probe
\* reports the validator D, the call is over: it has returned the recorded
\* path, made no GET request, written nothing to storage or table, and the
\* record and every field of the stats are what they were.
C3_SkipPath ==
    \A r \in Runs :
        LET l == loc[r] IN
        (/\ l.op = "download_file" /\ l.existing # None /\ ~l.overwrite
         /\ l.probe = "equal")
        => (/\ pc[r] = "idle" /\ l.outcome = "returned"
            /\ l.ret = l.existing.row.file_path
            /\ l.fetches = 0 /\ l.gets = 0 /\ l.saves = 0 /\ l.writes = 0
            /\ CurrentRecord(r) = l.existing
            /\ stats[r] = l.entry_stats)

C3_Witness ==
    \E r \in Runs :
        /\ loc[r].op = "download_file" /\ loc[r].existing # None /\ ~loc[r].overwrite
        /\ loc[r].probe = "equal"
        /\ loc[r].outcome = "returned"

\* C4: when a record with digest D exists, overwrite is off and the probe
\* failed or reported no validator or another one than D, the URL is
\* downloaded exactly once (one _make_request call, within which a body is
\* streamed at most once); and once the streamed body's digest is D the call
\* is over, having returned the recorded path with no storage write, no table
\* write and the record and the stats as they were.
C4_FallThrough ==
    \A r \in Runs :
        LET l == loc[r] IN
        (/\ l.op = "download_file" /\ l.existing # None /\ ~l.overwrite
         /\ l.probe \in {"failed", "absent", "differs"})
        => (/\ l.fetches = 1
            /\ Cardinality(SleepsFor(l, "polite")) <= 1
            /\ l.hash_value = RecordedDigest(r)
               => (/\ pc[r] = "idle" /\ l.outcome = "returned"
                   /\ l.ret = l.existing.row.file_path
                   /\ l.gets >= 1
                   /\ l.saves = 0 /\ l.writes = 0
                   /\ CurrentRecord(r) = l.existing
                   /\ stats[r].files_scraped = l.entry_stats.files_scraped
                   /\ stats[r] = l.entry_stats))

C4_Witness ==
    \E r \in Runs :
        /\ loc[r].op = "download_file" /\ loc[r].existing # None /\ ~loc[r].overwrite
        /\ loc[r].probe \in {"absent", "differs"}
        /\ loc[r].hash_value = RecordedDigest(r)
        /\ Len(loc[r].content) >= 1

\* C5: with overwrite on and a record present, the call makes no probe and
\* downloads once; it never ends on a skip path: a call that ended without an
\* error has saved the bytes and updated the record in place, also when the
\* digest is the recorded one, and the key has one record.
C5_Overwrite ==
    \A r \in Runs :
        LET l == loc[r] IN
        (l.op = "download_file" /\ l.existing # None /\ l.overwrite)
        => (/\ l.heads = 0 /\ l.fetches = 1
            /\ (l.outcome = "returned" /\ l.error = "")
               => (/\ l.gets >= 1 /\ l.saves = 1 /\ l.writes = 1
                   /\ l.ret = l.file_path
                   /\ storage[l.file_path] = Some(l.content)
                   /\ index[l.existing.pk].hash_value = l.hash_value
                   /\ index[l.existing.pk].file_size = l.total_size
                   /\ index[l.existing.pk].file_path = l.file_path
                   /\ index[l.existing.pk].last_updated > l.existing.row.last_updated
                   /\ Cardinality(RowsWithKey(index, inst[r], l.url)) = 1))

\* An overwriting call that found the recorded digest again and has
\* updated the record all the same.
C5_Witness ==
    \E r \in Runs :
        /\ loc[r].op = "download_file" /\ loc[r].existing # None /\ loc[r].overwrite
        /\ loc[r].outcome = "returned" /\ loc[r].error = ""
        /\ loc[r].hash_value = RecordedDigest(r)

\* The waits of a fetch whose first n attempts failed: request_delay * 2^k
\* after attempt k, for k = 0 .. n-1
BackoffWaits(n) == [i \in 1..n |-> <<"backoff", request_delay * (2 ^ (i - 1))>>]

\* C6: while every request of a fetch fails, attempt k (from 0) is followed by
\* a wait of request_delay * 2^k and the next attempt; the fetch that ends in
\* a request error has made exactly max_retries attempts, has waited after
\* each but the last, and has handed its caller one failure.
C6_RetryBound ==
    \A r \in Runs :
        LET l == loc[r] IN
        /\ (pc[r] = "get" /\ max_retries > 0)
           => (/\ l.attempt < max_retries
               /\ l.gets = l.attempt
               /\ l.sleeps = BackoffWaits(l.attempt))
        /\ l.error \in RequestErrors
           => (/\ l.gets = max_retries
               /\ l.sleeps = BackoffWaits(max_retries - 1)
               /\ l.outcome = "returned" /\ l.ret = None
               /\ Len(stats[r].errors) = Len(l.entry_stats.errors) + 1)

\* A fetch of at least two attempts, all failed on network errors.
C6_Witness ==
    \E r \in Runs :
        /\ loc[r].error = "ConnectionError" /\ ~loc[r].saw404
        /\ max_retries >= 2
        /\ loc[r].gets = max_retries

\* C7: a fetch one of whose requests was answered 404 is over with that
\* request: it makes no further attempt and waits no backoff after it.
C7_NotFoundFailsAtOnce ==
    \A r \in Runs :
        loc[r].saw404
        => (/\ pc[r] # "get"
            /\ Len(loc[r].sleeps) < loc[r].gets)

\* C8: every request that got its response (HEAD probe, page fetch or body
\* fetch) was followed by one wait of request_delay: a call has slept the
\* politeness delay as often as it got a response, and never when the fetch
\* failed.
C8_PolitenessDelay ==
    \A r \in Runs :
        LET l == loc[r] IN
        /\ Cardinality(SleepsFor(l, "polite")) = l.ok_requests
        /\ \A i \in SleepsFor(l, "polite") : l.sleeps[i][2] = request_delay
        /\ l.error \in RequestErrors => SleepsFor(l, "polite") = {}

\* C9: no call of download_file ends in an exception, whichever step fails.
C9_FailureIsolation ==
    \A r \in Runs :
        loc[r].op = "download_file" => (pc[r] # "aborted" /\ loc[r].outcome # "raised")

\* The failures of a download that are terminal for the URL before any byte
\* is stored: the last attempt's request error, the missing response of an
\* empty retry loop, and an error in mid-stream.
TerminalFetchErrors == RequestErrors \cup {"AttributeError", "ChunkedEncodingError"}

\* C10: a download that failed terminally in the fetch or in mid-stream has
\* added one entry for its URL to the errors, has counted one failed file,
\* has left files_scraped and total_size alone, has written nothing to the
\* storage and has neither created nor updated a record.
C10_TerminalFailure ==
    \A r \in Runs :
        LET l == loc[r] IN
        (l.op = "download_file" /\ l.error \in TerminalFetchErrors)
        => (/\ l.outcome = "returned" /\ l.ret = None
            /\ Len(stats[r].errors) = Len(l.entry_stats.errors) + 1
            /\ SubSeq(stats[r].errors, 1, Len(l.entry_stats.errors)) = l.entry_stats.errors
            /\ stats[r].errors[Len(stats[r].errors)].url = l.url
            /\ stats[r].files_failed = l.entry_stats.files_failed + 1
            /\ stats[r].files_scraped = l.entry_stats.files_scraped
            /\ stats[r].total_size = l.entry_stats.total_size
            /\ l.saves = 0 /\ l.writes = 0
            /\ CurrentRecord(r) = l.existing)

\* Both kinds of terminal failure: every attempt of a retrying fetch failed,
\* or the stream broke after a response, for a URL that has a record.
C10_Witness ==
    \E r \in Runs :
        /\ loc[r].op = "download_file"
        /\ loc[r].existing # None
        /\ \/ loc[r].error \in RequestErrors /\ loc[r].gets >= 2
           \/ loc[r].error = "ChunkedEncodingError"

\* C11: a download of a URL that has no record, whose request failed on some
\* attempts and was retried, shows no trace of the failed attempts in the
\* stats; once it has ended without an error it has made fewer failed
\* attempts than max_retries, has created the one record of its key, has
\* counted one scraped file and no failed one, and has added no errors entry.
C11_TransientThenSuccess ==
    \A r \in Runs :
        LET l == loc[r]
            failed == Cardinality(SleepsFor(l, "backoff")) IN
        (l.op = "download_file" /\ l.existing = None /\ failed >= 1)
        => (/\ l.error = ""
               => (/\ stats[r].errors = l.entry_stats.errors
                   /\ stats[r].files_failed = l.entry_stats.files_failed)
            /\ (l.outcome = "returned" /\ l.error = "")
               => (/\ failed < max_retries /\ l.gets = failed + 1
                   /\ Cardinality(SleepsFor(l, "polite")) = 1
                   /\ l.writes = 1
                   /\ Cardinality(RowsWithKey(index, inst[r], l.url)) = 1
                   /\ CurrentRecord(r).row.hash_value = l.hash_value
                   /\ CurrentRecord(r).row.date_created = now - 1
                   /\ stats[r].files_scraped = l.entry_stats.files_scraped + 1
                   /\ stats[r].files_failed = l.entry_stats.files_failed
                   /\ stats[r].errors = l.entry_stats.errors))

\* A download of a fresh URL that failed once, was retried, and succeeded.
C11_Witness ==
    \E r \in Runs :
        /\ loc[r].op = "download_file" /\ loc[r].existing = None
        /\ SleepsFor(loc[r], "backoff") # {}
        /\ loc[r].outcome = "returned" /\ loc[r].error = ""
        /\ loc[r].writes = 1

\* C12: a download whose storage save failed has written no record: the
\* record of its key is what the lookup found (none, or the old one) and the
\* call returned None; a call is at its commit, or has written a record,
\* only after its one save succeeded; and every record's path holds bytes.
C12_NoCommitAfterFailedSave ==
    /\ \A r \in Runs :
           LET l == loc[r] IN
           /\ l.error = "StorageWriteError"
              => (/\ l.saves = 0 /\ l.writes = 0
                  /\ l.outcome = "returned" /\ l.ret = None
                  /\ CurrentRecord(r) = l.existing)
           /\ pc[r] = "commit" => (l.saves = 1 /\ storage[l.file_path] = Some(l.content))
           /\ l.writes >= 1 => l.saves = 1
    /\ \A i \in 1..Len(index) : storage[index[i].file_path] # None

\* The save of changed bytes for a recorded URL failed.
C12_Witness ==
    \E r \in Runs :
        /\ loc[r].error = "StorageWriteError"
        /\ loc[r].existing # None
        /\ Len(loc[r].content) >= 1

\* C13: a download whose probe request failed has gone on to the full
\* download (one _make_request call); the probe has left no trace in the
\* stats: as long as the download has not failed the errors and files_failed
\* are what they were, a failed download has added its one entry and its one
\* count, and a download that ended without an error returned what the
\* download found: the recorded path for unchanged bytes, else the new path
\* with the record updated.
C13_FailedProbeNotAnError ==
    \A r \in Runs :
        LET l == loc[r] IN
        (l.op = "download_file" /\ l.probe = "failed")
        => (/\ l.heads = 1 /\ l.fetches = 1
            /\ l.outcome # "raised"
            /\ l.error = ""
               => (/\ stats[r].errors = l.entry_stats.errors
                   /\ stats[r].files_failed = l.entry_stats.files_failed)
            /\ l.error # ""
               => (/\ Len(stats[r].errors) = Len(l.entry_stats.errors) + 1
                   /\ stats[r].files_failed = l.entry_stats.files_failed + 1
                   /\ l.ret = None)
            /\ (l.outcome = "returned" /\ l.error = "")
               => IF l.hash_value = RecordedDigest(r)
                  THEN l.ret = l.existing.row.file_path /\ l.writes = 0
                  ELSE l.ret = l.file_path /\ l.writes = 1)

\* After a failed probe the changed bytes were downloaded and recorded.
C13_Witness ==
    \E r \in Runs :
        /\ loc[r].op = "download_file" /\ loc[r].probe = "failed"
        /\ loc[r].outcome = "returned" /\ loc[r].error = ""
        /\ loc[r].writes = 1

\* C14: once a run is finalized, a further finalize call (rejected, or
\* resolving to the first result) leaves end_time and the duration at the
\* values the first call set.
C14_SecondFinalizeKeepsFirst ==
    [][\A r \in Runs :
          (stats[r].end_time # None /\ loc'[r].op = "finalize")
          => (/\ stats'[r].end_time = stats[r].end_time
              /\ stats'[r].duration = stats[r].duration)]_vars

\* C15: end_time is set by no step but finalize's, and once finalize has
\* returned the run record, no step of a later download_file or fetch_page
\* call changes a field of the record returned.
C15_FinalizedImmutable ==
    [][\A r \in Runs :
          /\ stats'[r].end_time # stats[r].end_time => loc'[r].op = "finalize"
          /\ (stats[r].end_time # None /\ loc'[r].op \in {"download_file", "fetch_page"})
             => FinalizedRecord(r)' = FinalizedRecord(r)]_vars

\* C16: the failed files counted are the failures logged: files_failed is
\* the number of entries of errors, whatever calls the run has made.
C16_FailedEqualsErrors ==
    \A r \in Runs : stats[r].files_failed = Len(stats[r].errors)

\* C17: a download of a URL that has no record, ended without an error after
\* the remote sent a body of N bytes in whatever chunks, has created the one
\* record of its key with file_size N and the digest of the whole body,
\* stored the body under the path it returned, and has added exactly 1 to
\* files_scraped and exactly N to total_size.
C17_FreshDownload ==
    \A r \in Runs :
        LET l == loc[r]
            N == Len(l.body) IN
        (l.op = "download_file" /\ l.existing = None
         /\ l.outcome = "returned" /\ l.error = "")
        => (/\ l.writes = 1
            /\ Cardinality(RowsWithKey(index, inst[r], l.url)) = 1
            /\ CurrentRecord(r).row.file_size = N
            /\ CurrentRecord(r).row.hash_value = CalculateHash(l.body)
            /\ CurrentRecord(r).row.file_path = l.ret
            /\ storage[l.ret] = Some(l.body)
            /\ stats[r].files_scraped = l.entry_stats.files_scraped + 1
            /\ stats[r].total_size = l.entry_stats.total_size + N
            /\ stats[r].files_failed = l.entry_stats.files_failed
            /\ stats[r].errors = l.entry_stats.errors)

\* A fresh URL whose body of two bytes or more was downloaded and recorded.
C17_Witness ==
    \E r \in Runs :
        /\ loc[r].op = "download_file" /\ loc[r].existing = None
        /\ loc[r].outcome = "returned" /\ loc[r].error = ""
        /\ Len(loc[r].body) >= 2
        /\ stats[r].files_scraped = 1

\* C18: a download (overwrite off) that streamed bytes whose digest is the
\* one recorded for its key is over and has changed nothing of the record:
\* the key has one record, whose fields (digest, size, path, date_created,
\* last_updated) are those the lookup found, and the call returned the
\* recorded path without a table write.
C18_IdempotentCommit ==
    \A r \in Runs :
        LET l == loc[r] IN
        (/\ l.op = "download_file" /\ l.existing # None /\ ~l.overwrite
         /\ l.hash_value = RecordedDigest(r))
        => (/\ pc[r] = "idle" /\ l.outcome = "returned" /\ l.error = ""
            /\ l.writes = 0
            /\ Cardinality(RowsWithKey(index, inst[r], l.url)) = 1
            /\ index[l.existing.pk] = l.existing.row
            /\ index[l.existing.pk].date_created = l.existing.row.date_created
            /\ index[l.existing.pk].last_updated = l.existing.row.last_updated
            /\ l.ret = l.existing.row.file_path)

\* The same bytes were downloaded a second time for a key whose record
\* still has the timestamps of its first write.
C18_Witness ==
    \E r \in Runs :
        /\ loc[r].op = "download_file" /\ loc[r].existing # None /\ ~loc[r].overwrite
        /\ loc[r].hash_value = RecordedDigest(r)
        /\ loc[r].body # <<>>
        /\ loc[r].existing.row.date_created = loc[r].existing.row.last_updated
        /\ loc[r].outcome = "returned"

\* C19: for every byte string and every way of cutting it into chunks, empty
\* chunks included, the digest the streaming loop of download_file computes
\* and the digest calculate_file_hash computes block by block are both the
\* one-shot digest of _calculate_hash.
C19_DigestDeterminism ==
    \A r \in Runs :
        LET l == loc[r] IN
        /\ (l.one_shot # None /\ l.streamed # None) => l.streamed = l.one_shot
        /\ (l.one_shot # None /\ l.file_hash # None) => l.file_hash = l.one_shot

\* Two bytes that differ, streamed as two chunks with an empty one among
\* them and read from disk in two blocks, with all three digests computed.
C19_Witness ==
    \E r \in Runs :
        LET l == loc[r] IN
        /\ Len(l.body) = 2 /\ l.body[1] # l.body[2]
        /\ Len(l.chunks) = 3
        /\ \E i, j, k \in 1..3 : /\ i # j
                                 /\ Len(l.chunks[i]) = 1 /\ Len(l.chunks[j]) = 1
                                 /\ l.chunks[k] = <<>>
        /\ l.read_size = 1
        /\ l.one_shot # None /\ l.streamed # None /\ l.file_hash # None

\* C20: once finalize has returned, a stats document of the run is on disk
\* where the monitor's scan looks for it, and so is the "latest" pointer
\* document.
C20_StatsWrittenOnFinalize ==
    \A r \in Runs :
        (loc[r].op = "finalize" /\ loc[r].outcome = "returned")
        => (/\ \E p \in StatsDocuments(inst[r]) : storage[p] # None
            /\ storage[LatestDocument(inst[r])] # None)

\* C21: the commit of a download (overwrite off) whose digest is not the one
\* recorded for its key updates the record in place: the row the lookup
\* found takes the new digest, size, storage path, MIME type and a later
\* last_updated, keeps its institution, original_url and date_created, and
\* the table has the same number of rows, the others as they were.
C21_UpdateInPlace ==
    [][\A r \in Runs :
          LET l == loc[r] IN
          (/\ pc[r] = "commit" /\ pc'[r] = "idle" /\ loc'[r].error = ""
           /\ l.existing # None /\ ~l.overwrite
           /\ l.hash_value # RecordedDigest(r))
          => (/\ Len(index') = Len(index)
              /\ \A i \in 1..Len(index) : i # l.existing.pk => index'[i] = index[i]
              /\ LET old == index[l.existing.pk]
                     new == index'[l.existing.pk] IN
                 /\ new.hash_value = l.hash_value
                 /\ new.hash_value = CalculateHash(l.body)
                 /\ new.file_size = Len(l.body)
                 /\ new.file_path = StoragePath(inst[r], l.file_name)
                 /\ new.mime_type = GetMimeType(l.file_name)
                 /\ new.last_updated = now /\ new.last_updated > old.last_updated
                 /\ new.institution = old.institution
                 /\ new.original_url = old.original_url
                 /\ new.date_created = old.date_created
              /\ loc'[r].ret = l.file_path)]_vars

\* A record whose bytes changed was updated in place by a second download,
\* under another file name and so with another MIME type.
C21_Witness ==
    \E r \in Runs :
        /\ loc[r].op = "download_file" /\ loc[r].existing # None /\ ~loc[r].overwrite
        /\ loc[r].outcome = "returned" /\ loc[r].error = "" /\ loc[r].writes = 1
        /\ loc[r].hash_value # RecordedDigest(r)
        /\ index[loc[r].existing.pk].mime_type # loc[r].existing.row.mime_type
        /\ index[loc[r].existing.pk].file_size # loc[r].existing.row.file_size

\* C22: a step of a download_file call for the key (institution, url),
\* however it ends and however the steps of the runs interleave, leaves
\* every row of another key in the table, at its place and as it was.
C22_NonInterference ==
    [][\A r \in Runs :
          (loc'[r] # loc[r] /\ loc'[r].op = "download_file")
          => \A i \in 1..Len(index) :
                 (index[i].institution # inst[r] \/ index[i].original_url # loc'[r].url)
                 => (i <= Len(index') /\ index'[i] = index[i])]_vars

\* Two runs of two institutions have each committed the record of the same
\* URL, the second while the first one's record was in the table.
C22_Witness ==
    /\ Len(index) = 2
    /\ index[1].institution # index[2].institution
    /\ \A r \in Runs : loc[r].writes = 1 /\ loc[r].outcome = "returned"

\* C23: a download_file call makes at most one probe and at most max_retries
\* request attempts, and a call that has begun is over in the end (returned,
\* or left by the exception of its lookup), for every max_retries setting.
C23_Terminates ==
    /\ [](\A r \in Runs :
              loc[r].op = "download_file"
              => (loc[r].heads <= 1 /\ loc[r].gets <= max_retries /\ loc[r].fetches <= 1))
    /\ \A r \in Runs :
           (pc[r] \notin {"idle", "aborted"}) ~> (pc[r] \in {"idle", "aborted"})

\* A call that probed once, used up all of its two or more attempts and
\* returned.
C23_Witness ==
    \E r \in Runs :
        /\ loc[r].op = "download_file" /\ loc[r].outcome = "returned"
        /\ loc[r].heads = 1
        /\ max_retries >= 2 /\ loc[r].gets = max_retries

\* C24: whenever no call is in flight, the bytes the storage holds at the
\* path of every record are the bytes the record describes: their digest is
\* the record's hash_value and their length its file_size.
C24_RecordMatchesBytes ==
    (\A r \in Runs : pc[r] \in {"idle", "aborted"})
    => \A i \in 1..Len(index) :
           LET stored == storage[index[i].file_path] IN
           /\ stored # None
           /\ CalculateHash(stored[1]) = index[i].hash_value
           /\ Len(stored[1]) = index[i].file_size

\* C25: a _make_request call that is over has either received a response
\* or raised a request error, for every max_retries setting: no call of
\* fetch_page or download_file goes on without a response.
C25_TransportTotal ==
    \A r \in Runs :
        LET l == loc[r] IN
        (l.fetches = 1 /\ pc[r] # "get")
        => (\/ SleepsFor(l, "polite") # {}
            \/ l.error \in RequestErrors)

\* The three things a download_file call may have done to the stats since
\* it began: counted one scraped file, counted one failed file, or nothing
CountedScraped(st, l) ==
    /\ st.files_scraped = l.entry_stats.files_scraped + 1
    /\ st.total_size = l.entry_stats.total_size + l.total_size
    /\ st.files_failed = l.entry_stats.files_failed
    /\ st.errors = l.entry_stats.errors

CountedFailed(st, l) ==
    /\ st.files_failed = l.entry_stats.files_failed + 1
    /\ Len(st.errors) = Len(l.entry_stats.errors) + 1
    /\ st.errors[Len(st.errors)].url = l.url
    /\ st.files_scraped = l.entry_stats.files_scraped
    /\ st.total_size = l.entry_stats.total_size

\* C26: no step lowers files_scraped, files_failed or total_size or changes
\* an entry of errors that is there; and at every step of a download_file
\* call the stats are in one of three cases: one more scraped file and the
\* call's bytes added, with the record of the URL committed by this call
\* and carrying the digest just computed; or one more failed file and one
\* more errors entry for the URL, the call having returned None; or the
\* stats as they were when the call began.
C26_StatsAccounting ==
    [][\A r \in Runs :
          /\ stats'[r].files_scraped >= stats[r].files_scraped
          /\ stats'[r].files_failed >= stats[r].files_failed
          /\ stats'[r].total_size >= stats[r].total_size
          /\ Len(stats'[r].errors) >= Len(stats[r].errors)
          /\ SubSeq(stats'[r].errors, 1, Len(stats[r].errors)) = stats[r].errors
          /\ LET l == loc'[r]
                 st == stats'[r] IN
             (l.op = "download_file" /\ loc'[r] # loc[r])
             => (\/ /\ CountedScraped(st, l)
                    /\ l.outcome = "returned" /\ l.error = "" /\ l.writes = 1
                    /\ \E i \in RowsWithKey(index', inst[r], l.url) :
                           index'[i].hash_value = l.hash_value
                 \/ /\ CountedFailed(st, l)
                    /\ l.outcome = "returned" /\ l.ret = None /\ l.error # ""
                 \/ /\ st = l.entry_stats
                    /\ l.error = "" \/ l.outcome = "raised")]_vars

\* A run that has counted a scraped file of one byte or more, and then a
\* failed one.
C26_Witness ==
    \E r \in Runs :
        /\ stats[r].files_scraped = 1 /\ stats[r].total_size >= 1
        /\ stats[r].files_failed = 1
        /\ loc[r].op = "download_file" /\ loc[r].error # ""

====
